---- MODULE Spec2Model ----
(***************************************************************************)
(* The analysis queue database of lib/cuckoo/core/database.py: the tables  *)
(* tasks, samples, machines and tags behind the Database class, and the    *)
(* operations that submit, fetch, re-schedule and lease.                   *)
(*                                                                         *)
(* Spec      the operations as one process runs them: every method is      *)
(*           wrapped by @classlock, so inside one process each call is one *)
(*           atomic step.                                                  *)
(* SpecConc  several processes sharing the store.  @classlock is a lock of *)
(*           the process, not of the store, so the statements a method     *)
(*           sends (SELECT, INSERT/UPDATE + COMMIT) interleave with those  *)
(*           of the other processes; each statement is atomic.             *)
(***************************************************************************)
EXTENDS Integers, Sequences, FiniteSets, TLC

\* ------------------------------------------------------------------ bounds
MaxTasks == 2       \* rows of tasks under Spec
MaxQueue == 3       \* rows of tasks under SpecQueue
MaxTime == 2        \* ticks of the clock
MaxMachines == 2    \* rows of machines
MaxGuests == 2      \* ids of guests
MaxStatusTasks == 1 \* rows of tasks under SpecStatus and SpecErrors
MaxErrors == 2      \* rows of errors

\* --------------------------------------------------------------- constants
TASK_PENDING == "pending"
TASK_RUNNING == "running"
TASK_COMPLETED == "completed"
TASK_RECOVERED == "recovered"
TASK_REPORTED == "reported"
TASK_FAILED_ANALYSIS == "failed_analysis"
TASK_FAILED_PROCESSING == "failed_processing"
TASK_FAILED_REPORTING == "failed_reporting"
TASK_DISTRIBUTED_COMPLETED == "distributed_completed"

\* The values the status column (an Enum) accepts.
status_type ==
    {TASK_PENDING, TASK_RUNNING, TASK_COMPLETED, TASK_REPORTED, TASK_RECOVERED,
     TASK_FAILED_ANALYSIS, TASK_FAILED_PROCESSING, TASK_FAILED_REPORTING}

\* Python's None for a row, an id or a nullable integer column.
None == 0
\* NULL in a nullable DateTime column.
NoTime == -1
\* datetime.utcfromtimestamp(0), the clock of a task submitted without one.
EPOCH == 0

\* The callers of the Database methods.
Procs == {"p1", "p2"}

\* ------------------------------------------------------------ environment
\* The file system the submissions read: paths, and the bytes behind each.
Paths == {"/tmp/a", "/tmp/b"}
Urls == {"http://u"}
\* An archive that holds the two files.
Archives == {"/tmp/z"}
FileContent(path) ==
    CASE path = "/tmp/a" -> "A"
      [] path = "/tmp/b" -> "B"
      [] path = "/tmp/z" -> "Z"

\* File.get_sha256: distinct contents have distinct digests.
get_sha256(c) ==
    CASE c = "A" -> "sha256:A" [] c = "B" -> "sha256:B" [] c = "Z" -> "sha256:Z"
\* File.get_md5: MD5 is not collision resistant; A and B are a colliding pair.
get_md5(c) ==
    CASE c = "A" -> "md5:AB" [] c = "B" -> "md5:AB" [] c = "Z" -> "md5:Z"
\* File.get_type: what libmagic says of the bytes.
get_type(c) ==
    CASE c = "A" -> "PE32 executable (GUI) Intel 80386, for MS Windows"
      [] c = "B" -> "PE32+ executable (GUI) x86-64, for MS Windows"
      [] c = "Z" -> "Zip archive data, at least v2.0 to extract"
\* "PE32+" in file_type
HasPE32Plus(file_type) ==
    file_type = "PE32+ executable (GUI) x86-64, for MS Windows"

\* ------------------------------------------------------------------ state
VARIABLES
    tasks,       \* table tasks: id -> row
    samples,     \* table samples: id -> row
    machines,    \* table machines: id -> row
    tags,        \* table tags: the names of its rows (the column is unique)
    files,       \* the paths that exist on disk
    now,         \* datetime.now()
    ret,         \* the last call that returned: what it was and what it gave
    pc,          \* per process: where it is inside a method (SpecConc)
    loc,         \* per process: the locals of the method it is inside
    claims,      \* per task: the processes of SpecConc whose fetch call
                 \* returned it
    holders,     \* per machine: the callers lock_machine returned it to,
                 \* since its last unlock
    leases,      \* the leases in flight: <<label, caller>> when lock_machine
                 \* returned the machine of that label to the caller and the
                 \* caller has not released it since
    guests,      \* table guests: id -> row
    errors       \* table errors: id -> row

vars == <<tasks, samples, machines, tags, files, now, ret, pc, loc, claims, holders, leases, guests, errors>>

store == <<tasks, samples, machines, tags>>

\* ---------------------------------------------------------------- helpers
Max(S) == CHOOSE x \in S : \A y \in S : y <= x

\* The id an autoincrement primary key gives the next row.
NextId(table) == IF DOMAIN table = {} THEN 1 ELSE Max(DOMAIN table) + 1

Range(s) == {s[i] : i \in DOMAIN s}

\* A delete that takes no row.
without_nothing(table, gone) == table

\* A table without the rows of the ids in gone.
without(table, gone) == [i \in DOMAIN table \ gone |-> table[i]]

\* What a call hands back: the method, the value returned (an id, or None)
\* and what it logged or raised, if anything.
Return(op, val, log) == [op |-> op, val |-> val, log |-> log]

\* after_flush listener: delete every Tag no task and no machine refers to.
delete_tag_orphans(tg, ts, ms) ==
    {n \in tg : (\E t \in DOMAIN ts : n \in ts[t].tags)
                \/ (\E m \in DOMAIN ms : n \in ms[m].tags)}

\* ------------------------------------------------------------- submission
\* The keyword arguments of add_path / add_url / add_pcap / add_static.  tags
\* is the comma separated string, given as the list tags.replace(" ",
\* "").split(",") makes of it (<<>> for None and ""); clock is None, a string
\* or a datetime.
NoClock == [kind |-> "none", v |-> ""]
ClockStr(s) == [kind |-> "str", v |-> s]
ClockAt(d) == [kind |-> "datetime", v |-> d]

DefaultArgs ==
    [timeout |-> 0, package |-> "", options |-> "", priority |-> 1,
     custom |-> "", machine |-> "", platform |-> "", tags |-> <<>>,
     memory |-> FALSE, enforce_timeout |-> FALSE, clock |-> NoClock]

FullArgs ==
    [timeout |-> 120, package |-> "exe", options |-> "free=yes", priority |-> 5,
     custom |-> "c", machine |-> "", platform |-> "windows", tags |-> <<"x">>,
     memory |-> TRUE, enforce_timeout |-> TRUE,
     clock |-> ClockStr("12-31-2024 23:59:00")]

MachineArgs ==
    [DefaultArgs EXCEPT !.priority = 3, !.machine = "vm1",
                        !.clock = ClockStr("not-a-date")]

\* The tags strings callers pass, and tags.replace(" ", "").split(",") of
\* each: the blanks (U+0020) are dropped, other white space and the case of
\* the letters are kept, a name given twice is twice in the list.
RawTags == {"x", " x ", "x, x", "X", "x\t"}
split_tags(s) ==
    CASE s = "x" -> <<"x">>
      [] s = " x " -> <<"x">>
      [] s = "x, x" -> <<"x", "x">>
      [] s = "X" -> <<"X">>
      [] s = "x\t" -> <<"x\t">>

\* The submissions the callers make: the method, its target and its arguments.
Requests ==
    {<<"file", p, a>> : p \in Paths, a \in {DefaultArgs, FullArgs, MachineArgs}}
    \cup {<<"url", u, a>> : u \in Urls, a \in {DefaultArgs, MachineArgs}}
    \cup {<<"pcap", "/tmp/a", DefaultArgs>>, <<"static", "/tmp/b", DefaultArgs>>}

\* One submission of every category, for the specifications that follow a
\* task through its statuses.
LifeRequests ==
    {<<"file", "/tmp/a", FullArgs>>, <<"file", "/tmp/b", DefaultArgs>>,
     <<"url", "http://u", MachineArgs>>, <<"pcap", "/tmp/a", DefaultArgs>>,
     <<"static", "/tmp/b", DefaultArgs>>}

\* strptime under a format no clock string of the callers matches.
strptime_other_format(s) == [ok |-> FALSE, v |-> 0]

\* datetime.strptime(clock, "%m-%d-%Y %H:%M:%S"): the timestamp (seconds since
\* the epoch), or ValueError.
strptime(s) ==
    IF s = "12-31-2024 23:59:00"
    THEN [ok |-> TRUE, v |-> 1735689540]
    ELSE [ok |-> FALSE, v |-> 0]

\* The clock add() stores.
task_clock(clock) ==
    IF clock.kind = "none" \/ (clock.kind = "str" /\ clock.v = "")
    THEN EPOCH
    ELSE IF clock.kind = "str"
         THEN (IF strptime(clock.v).ok THEN strptime(clock.v).v ELSE EPOCH)
         ELSE clock.v

\* Sample(md5=..., sha256=..., file_type=..., parent=sample_parent_id)
Sample(c, parent) ==
    [sha256 |-> get_sha256(c), md5 |-> get_md5(c), file_type |-> get_type(c),
     parent |-> parent]

\* The unique index sha256_index rejects the INSERT (IntegrityError).
sample_conflict(ss, c) == \E s \in DOMAIN ss : ss[s].sha256 = get_sha256(c)

\* session.add(sample); session.commit() when the index accepts the row.
sample_insert(ss, c, parent) == ss @@ (NextId(ss) :> Sample(c, parent))

\* session.query(Sample).filter_by(md5=file_md5).first(): no ORDER BY, so any
\* of the rows with that md5 may come first.
sample_reread(ss, c) == {s \in DOMAIN ss : ss[s].md5 = get_md5(c)}

\* The sample part of add(), were the parent of the row found written over.
sample_commit_reparenting(ss, c, parent) ==
    IF sample_conflict(ss, c)
    THEN {[samples |-> [ss EXCEPT ![s].parent = parent], sid |-> s,
           inserted |-> FALSE] : s \in sample_reread(ss, c)}
    ELSE {[samples |-> sample_insert(ss, c, parent), sid |-> NextId(ss),
           inserted |-> TRUE]}

\* The sample part of add(): the stores it may leave and the row it settles on.
sample_commit(ss, c, parent) ==
    IF sample_conflict(ss, c)
    THEN {[samples |-> ss, sid |-> s, inserted |-> FALSE] : s \in sample_reread(ss, c)}
    ELSE {[samples |-> sample_insert(ss, c, parent), sid |-> NextId(ss),
           inserted |-> TRUE]}

\* The 64_bit tag added whatever machine is asked for.
add_64bit_tag_any_machine(tl, file_type, machine) ==
    IF HasPE32Plus(file_type) THEN Append(tl, "64_bit") ELSE tl

\* if "PE32+" in file_type and not machine: tags += ",64_bit"
add_64bit_tag(tl, file_type, machine) ==
    IF HasPE32Plus(file_type) /\ machine = "" THEN Append(tl, "64_bit") ELSE tl

\* _get_or_create makes a new Tag for every name the query does not find; the
\* new Tags are flushed only at the final commit, so a name asked twice makes
\* two rows and the unique column rejects the commit.
tags_rejected(tg, tl) ==
    \E i, j \in DOMAIN tl : i < j /\ tl[i] = tl[j] /\ tl[i] \notin tg

\* The row add() builds.
Task(target, category, a, sid, tl, started, t) ==
    [target |-> target, category |-> category,
     timeout |-> a.timeout,
     priority |-> IF a.priority = 0 THEN 1 ELSE a.priority,
     custom |-> a.custom, machine |-> a.machine, package |-> a.package,
     options |-> a.options, platform |-> a.platform, memory |-> a.memory,
     enforce_timeout |-> a.enforce_timeout, clock |-> task_clock(a.clock),
     tags |-> Range(tl), added_on |-> t, started_on |-> started,
     completed_on |-> NoTime, status |-> TASK_PENDING, sample_id |-> sid]

\* session.add(task); session.commit(): the stores after it and the id
\* returned, None after a rollback.
task_commit(ts, tg, ms, row, tl) ==
    IF tags_rejected(tg, tl)
    THEN [tasks |-> ts, tags |-> tg, val |-> None, log |-> "debug"]
    ELSE LET ts2 == ts @@ (NextId(ts) :> row)
         IN [tasks |-> ts2,
             tags |-> delete_tag_orphans(tg \cup Range(tl), ts2, ms),
             val |-> NextId(ts), log |-> ""]

\* add(obj, ...): every outcome of the call on the store <<ts, ss, tg, ms>> at
\* time t.  category is obj.__class__.__name__.lower().
add(ts, ss, tg, ms, category, target, a, sample_parent_id, t) ==
    IF category = "url"
    THEN LET o == task_commit(ts, tg, ms,
                      Task(target, category, a, None, a.tags, NoTime, t), a.tags)
         IN {[tasks |-> o.tasks, samples |-> ss, tags |-> o.tags,
              val |-> o.val, log |-> o.log]}
    ELSE LET c == FileContent(target)
             tl == add_64bit_tag(a.tags, get_type(c), a.machine)
             started == IF category \in {"pcap", "static"} THEN t ELSE NoTime
         IN {LET tg1 == IF s.inserted THEN delete_tag_orphans(tg, ts, ms) ELSE tg
                 o == task_commit(ts, tg1, ms,
                          Task(target, category, a, s.sid, tl, started, t), tl)
             IN [tasks |-> o.tasks, samples |-> s.samples, tags |-> o.tags,
                 val |-> o.val, log |-> o.log]
             : s \in sample_commit(ss, c, sample_parent_id)}

\* ------------------------------------------------------------------- init
\* The ids the bounds let the tasks table reach.
TaskIds == 1..(IF MaxQueue > MaxTasks THEN MaxQueue ELSE MaxTasks)

Init ==
    /\ tasks = <<>>
    /\ samples = <<>>
    /\ machines = <<>>
    /\ tags = {}
    /\ files = Paths \cup Archives
    /\ now = 1
    /\ ret = Return("init", None, "")
    /\ pc = [p \in Procs |-> "idle"]
    /\ loc = [p \in Procs |-> <<>>]
    /\ claims = [t \in TaskIds |-> {}]
    /\ holders = [m \in 1..MaxMachines |-> {}]
    /\ leases = {}
    /\ guests = <<>>
    /\ errors = <<>>

\* ------------------------------------------------------------ environment
\* Time passes between two calls.
Tick ==
    /\ now < MaxTime
    /\ now' = now + 1
    /\ ret' = Return("tick", None, "")
    /\ UNCHANGED <<store, files, pc, loc, claims, holders, leases, guests, errors>>

\* A submitted file is removed from disk (temporary upload directories are).
RemoveFile(path) ==
    /\ path \in files
    /\ \E t \in DOMAIN tasks : tasks[t].target = path
    /\ files' = files \ {path}
    /\ ret' = Return("unlink", None, "")
    /\ UNCHANGED <<store, now, pc, loc, claims, holders, leases, guests, errors>>

\* ------------------------------------------------- the queue, one process
\* add_path(file_path, ..., sample_parent_id): None with a warning when the
\* file does not exist, add(File(file_path), ...) otherwise.
add_path(ts, ss, tg, ms, fs, target, a, sample_parent_id, t) ==
    IF target \notin fs
    THEN {[tasks |-> ts, samples |-> ss, tags |-> tg, val |-> None,
           log |-> "warning"]}
    ELSE add(ts, ss, tg, ms, "file", target, a, sample_parent_id, t)

\* add_static hands its static=True to add() by position, in the place of
\* sample_parent_id: a Sample it inserts has parent = True, which the Integer
\* column stores as 1.
static_as_parent == 1

\* add_static(file_path, ...): add(Static(file_path), ..., parent_id, static);
\* the file is hashed without a check that it exists.
add_static(ts, ss, tg, ms, fs, target, a, t) ==
    IF target \notin fs
    THEN {[tasks |-> ts, samples |-> ss, tags |-> tg, val |-> None,
           log |-> "raise IOError"]}
    ELSE add(ts, ss, tg, ms, "static", target, a, static_as_parent, t)

\* add_path / add_url / add_pcap / add_static on the store as it is: every
\* <<tasks, samples, tags, return value>> the call may end with.
\*   add_path   returns None with a warning when the file does not exist;
\*   add_pcap, add_static hash the file without that check: IOError.
submit(ts, ss, tg, ms, fs, category, target, a, t) ==
    IF category = "file" THEN add_path(ts, ss, tg, ms, fs, target, a, None, t)
    ELSE IF category = "static" THEN add_static(ts, ss, tg, ms, fs, target, a, t)
    ELSE IF category # "url" /\ target \notin fs
    THEN {[tasks |-> ts, samples |-> ss, tags |-> tg, val |-> None,
           log |-> "raise IOError"]}
    ELSE add(ts, ss, tg, ms, category, target, a, None, t)

Submit(req) ==
    /\ \E o \in submit(tasks, samples, tags, machines, files,
                       req[1], req[2], req[3], now) :
          /\ tasks' = o.tasks
          /\ samples' = o.samples
          /\ tags' = o.tags
          /\ ret' = Return("add", o.val, o.log)
    /\ UNCHANGED <<machines, files, now, pc, loc, claims, holders, leases, guests, errors>>

\* set_status on one row, were the status asked always stored.
set_status_row_stores_alias(row, status, t) ==
    IF status = TASK_RUNNING
    THEN [row EXCEPT !.status = status, !.started_on = t]
    ELSE IF status = TASK_COMPLETED \/ status = TASK_DISTRIBUTED_COMPLETED
         THEN [row EXCEPT !.status = status, !.completed_on = t]
         ELSE [row EXCEPT !.status = status]

\* set_status on one row: row.status = status unless the status is the
\* distributed alias; started_on / completed_on stamped by the status asked.
set_status_row(row, status, t) ==
    LET r1 == IF status # TASK_DISTRIBUTED_COMPLETED
              THEN [row EXCEPT !.status = status] ELSE row
    IN IF status = TASK_RUNNING
       THEN [r1 EXCEPT !.started_on = t]
       ELSE IF status = TASK_COMPLETED \/ status = TASK_DISTRIBUTED_COMPLETED
            THEN [r1 EXCEPT !.completed_on = t]
            ELSE r1

\* set_status(task_id, status) on the table: no row, nothing done; a value the
\* Enum column refuses fails the commit, which is rolled back.
set_status(ts, task_id, status, t) ==
    IF task_id \notin DOMAIN ts THEN ts
    ELSE IF status \notin status_type \cup {TASK_DISTRIBUTED_COMPLETED} THEN ts
    ELSE [ts EXCEPT ![task_id] = set_status_row(ts[task_id], status, t)]

\* The statuses callers pass to set_status.
StatusArgs == status_type \cup {TASK_DISTRIBUTED_COMPLETED, "bogus"}

SetStatus(task_id, status) ==
    /\ tasks' = set_status(tasks, task_id, status, now)
    /\ tags' = IF tasks' # tasks THEN delete_tag_orphans(tags, tasks', machines)
               ELSE tags
    /\ ret' = Return("set_status", None,
                     IF task_id \in DOMAIN tasks
                        /\ status \notin status_type \cup {TASK_DISTRIBUTED_COMPLETED}
                     THEN "debug" ELSE "")
    /\ UNCHANGED <<samples, machines, files, now, pc, loc, claims, holders, leases, guests, errors>>

\* pending_rows with the tasks of the default priority left out.
pending_rows_above_default(ts, machine) ==
    {t \in DOMAIN ts : /\ ts[t].status = TASK_PENDING
                       /\ ts[t].priority > 1
                       /\ (machine = "" \/ ts[t].machine = machine)}

\* query(Task).filter_by(status=TASK_PENDING)[.filter_by(machine=machine)]
pending_rows(ts, machine) ==
    {t \in DOMAIN ts : /\ ts[t].status = TASK_PENDING
                       /\ (machine = "" \/ ts[t].machine = machine)}

\* order_first with the priority left out of the ORDER BY.
order_first_by_added_on(ts, rows) ==
    {t \in rows : \A u \in rows : ts[u].added_on >= ts[t].added_on}

\* .order_by(text("priority desc, added_on")).first(): the rows that may come
\* first.  Rows equal in priority and added_on are in no defined order.
order_first(ts, rows) ==
    {t \in rows : \A u \in rows :
        \/ ts[u].priority < ts[t].priority
        \/ (ts[u].priority = ts[t].priority /\ ts[u].added_on >= ts[t].added_on)}

\* fetch(lock, machine) under the class lock.
Fetch(lock, machine) ==
    /\ IF pending_rows(tasks, machine) = {}
       THEN /\ ret' = Return("fetch", None, "")
            /\ UNCHANGED <<tasks, tags>>
       ELSE \E row \in order_first(tasks, pending_rows(tasks, machine)) :
            /\ ret' = Return("fetch", row, "")
            /\ IF lock
               THEN /\ tasks' = set_status(tasks, row, TASK_RUNNING, now)
                    /\ tags' = delete_tag_orphans(tags, tasks', machines)
               ELSE UNCHANGED <<tasks, tags>>
    /\ UNCHANGED <<samples, machines, files, now, pc, loc, claims, holders, leases, guests, errors>>

\* A set as a list, in some order (the order a relationship loads in).
SetToSeq(S) == CHOOSE q \in [1..Cardinality(S) -> S] : Range(q) = S

\* reschedule: tags = ",".join(tag.name for tag in task.tags) if task.tags,
\* as the list add() splits the string into; a string that is empty counts
\* as no tags there.
join_tags(names) ==
    IF names = {} \/ names = {""} THEN <<>> ELSE SetToSeq(names)

\* The arguments reschedule passes on from the row.
reschedule_args(row) ==
    [timeout |-> row.timeout, package |-> row.package, options |-> row.options,
     priority |-> row.priority, custom |-> row.custom, machine |-> row.machine,
     platform |-> row.platform, tags |-> join_tags(row.tags),
     memory |-> row.memory, enforce_timeout |-> row.enforce_timeout,
     clock |-> ClockAt(row.clock)]

\* reschedule putting the row back in the queue instead of retiring it.
mark_pending_again(ts, task_id) == [ts EXCEPT ![task_id].status = TASK_PENDING]

\* session.query(Task).get(task_id).status = TASK_RECOVERED; session.commit()
mark_recovered(ts, task_id) == [ts EXCEPT ![task_id].status = TASK_RECOVERED]

\* reschedule(task_id) under the class lock: the row is marked recovered and
\* committed, then the add_* of its category is called with its fields.
Reschedule(task_id) ==
    /\ IF task_id \notin DOMAIN tasks
       THEN /\ ret' = Return("reschedule", None, "")
            /\ UNCHANGED <<tasks, samples, tags>>
       ELSE LET ts1 == mark_recovered(tasks, task_id)
                tg1 == delete_tag_orphans(tags, ts1, machines)
                row == tasks[task_id]
            IN \E o \in submit(ts1, samples, tg1, machines, files, row.category,
                               row.target, reschedule_args(row), now) :
                  /\ tasks' = o.tasks
                  /\ samples' = o.samples
                  /\ tags' = o.tags
                  /\ ret' = Return("reschedule", o.val, o.log)
    /\ UNCHANGED <<machines, files, now, pc, loc, claims, holders, leases, guests, errors>>

\* delete_task(task_id): session.delete(task); commit, which takes the rows
\* of tasks_tags with it, and the Guest and the Errors of the task (cascade
\* "delete" on Task.guest and Task.errors).  With no such row session.delete(None) fails; the
\* failure is logged, rolled back and False returned.
DeleteTask(task_id) ==
    /\ IF task_id \notin DOMAIN tasks
       THEN /\ ret' = Return("delete_task", None, "debug")
            /\ UNCHANGED <<tasks, tags, claims, guests, errors>>
       ELSE /\ tasks' = [t \in DOMAIN tasks \ {task_id} |-> tasks[t]]
            /\ guests' = without(guests, {g \in DOMAIN guests :
                                             guests[g].task_id = task_id})
            /\ errors' = without(errors, {e \in DOMAIN errors :
                                             errors[e].task_id = task_id})
            /\ tags' = delete_tag_orphans(tags, tasks', machines)
            /\ claims' = [claims EXCEPT ![task_id] = {}]
            /\ ret' = Return("delete_task", task_id, "")
    /\ UNCHANGED <<samples, machines, files, now, pc, loc, holders, leases>>

\* ---------------------------------------------------- archive submission
\* demux_sample(file_path, package, options): the paths the demultiplexer
\* hands back: the files of an archive, or the path itself for a file that
\* is none.
demux_sample(path) ==
    IF path \in Archives THEN <<"/tmp/a", "/tmp/b">> ELSE <<path>>

\* static_extraction(file): the configuration extracted statically, if any:
\* the bytes of /tmp/b hold one, those of /tmp/a do not.
static_extraction(file) == file = "/tmp/b"

\* get_options(options)["file"].lower(), "" when the option is not given.
file_option(options) == IF options = "file=B" THEN "b" ELSE ""

\* opts["file"].lower() in xfile.lower()
in_lower(needle, xfile) == needle = "b" /\ xfile = "/tmp/b"

\* if "file" in opts: the first extracted file that has the option in its
\* name is the only one submitted; all of them when none has.
file_filter(fl, options) ==
    LET hits == {i \in DOMAIN fl : in_lower(file_option(options), fl[i])}
    IN IF file_option(options) = "" \/ hits = {} THEN fl
       ELSE <<fl[CHOOSE i \in hits : \A j \in hits : i <= j]>>

\* The loop of demux_sample_and_add_to_db from the i-th file on: add_static
\* (file_path and priority only) for a file with a static configuration when
\* static is asked, add_path with the arguments and sample_parent_id for the
\* others.  st is the store and the ids so far; the result is every store the
\* loop may end with.  An exception of add_static ends the loop.
RECURSIVE demux_loop(_, _, _, _, _, _, _, _, _)
demux_loop(st, fl, i, a, static, sample_parent_id, ms, fs, t) ==
    IF i > Len(fl) THEN {st}
    ELSE LET outcomes ==
                 IF static /\ static_extraction(fl[i])
                 THEN add_static(st.tasks, st.samples, st.tags, ms, fs, fl[i],
                                 [DefaultArgs EXCEPT !.priority = a.priority], t)
                 ELSE add_path(st.tasks, st.samples, st.tags, ms, fs, fl[i], a,
                               sample_parent_id, t)
         IN UNION {IF o.log = "raise IOError"
                   THEN {[tasks |-> o.tasks, samples |-> o.samples,
                          tags |-> o.tags, ids |-> st.ids, log |-> o.log]}
                   ELSE demux_loop(
                            [tasks |-> o.tasks, samples |-> o.samples,
                             tags |-> o.tags,
                             ids |-> IF o.val # None THEN Append(st.ids, o.val)
                                     ELSE st.ids,
                             log |-> IF o.log # "" THEN o.log ELSE st.log],
                            fl, i + 1, a, static, sample_parent_id, ms, fs, t)
                   : o \in outcomes}

\* demux_sample_and_add_to_db(file_path, ..., static): when the demultiplexer
\* hands back files and the path is not one of them, the path is registered
\* as a Sample (register_sample: inserted without parent, or re-read by md5
\* when the index refuses it) and its id is the sample_parent_id of the
\* loop.  Returns the list of the ids of the tasks added.
Demux(path, a, static) ==
    /\ path \in files
    /\ Cardinality(DOMAIN tasks) + Len(demux_sample(path)) <= MaxQueue
    /\ LET extracted == demux_sample(path)
           registered ==
               IF extracted # <<>> /\ path \notin Range(extracted)
               THEN sample_commit(samples, FileContent(path), None)
               ELSE {[samples |-> samples, sid |-> None, inserted |-> FALSE]}
       IN \E r \in registered :
          \E o \in demux_loop(
                       [tasks |-> tasks, samples |-> r.samples,
                        tags |-> IF r.inserted
                                 THEN delete_tag_orphans(tags, tasks, machines)
                                 ELSE tags,
                        ids |-> <<>>, log |-> ""],
                       file_filter(extracted, a.options), 1, a, static, r.sid,
                       machines, files, now) :
             /\ tasks' = o.tasks
             /\ samples' = o.samples
             /\ tags' = o.tags
             /\ ret' = Return("demux_sample_and_add_to_db", o.ids, o.log)
    /\ UNCHANGED <<machines, files, now, pc, loc, claims, holders, leases,
                   guests, errors>>

\* ------------------------------------------- the queue when the store fails
\* The calls below are the same methods, taken down the path on which a
\* statement or a commit raises SQLAlchemyError (the connection drops, the
\* store is locked, a constraint other than the sample index refuses).

\* add(): at = "sample", the commit of the sample fails: logged, None.
\*        at = "task", the sample is settled and the final commit fails:
\*        rolled back, logged, None.
SubmitFault(req, at) ==
    /\ req[1] # "url" => req[2] \in files
    /\ IF at = "sample"
       THEN /\ req[1] # "url"
            /\ UNCHANGED <<samples, tags>>
       ELSE IF req[1] = "url" THEN UNCHANGED <<samples, tags>>
       ELSE \E s \in sample_commit(samples, FileContent(req[2]), None) :
               /\ samples' = s.samples
               /\ tags' = IF s.inserted
                          THEN delete_tag_orphans(tags, tasks, machines)
                          ELSE tags
    /\ ret' = Return("add", None, "debug")
    /\ UNCHANGED <<tasks, machines, files, now, pc, loc, claims, holders, leases, guests, errors>>

\* set_status(): the commit fails: logged, rolled back, None returned, as
\* when nothing went wrong.
SetStatusFault(task_id, status) ==
    /\ task_id \in DOMAIN tasks
    /\ ret' = Return("set_status", None, "debug")
    /\ UNCHANGED <<store, files, now, pc, loc, claims, holders, leases, guests, errors>>

\* fetch(lock=True): at = "select", the query fails: logged, rolled back,
\*                   the method falls off its end (None);
\*                   at = "set_status", the commit inside set_status fails,
\*                   which set_status swallows: fetch refreshes the row and
\*                   returns it.
FetchFault(machine, at) ==
    /\ IF at = "select"
       THEN ret' = Return("fetch", None, "debug")
       ELSE /\ pending_rows(tasks, machine) # {}
            /\ \E row \in order_first(tasks, pending_rows(tasks, machine)) :
                  ret' = Return("fetch", row, "debug")
    /\ UNCHANGED <<store, files, now, pc, loc, claims, holders, leases, guests, errors>>

\* reschedule(): at = "recover", the commit of the status fails: rolled
\*               back, False;
\*               at = "add", the status is committed and the commit of the
\*               new task inside add() fails: None.
RescheduleFault(task_id, at) ==
    /\ task_id \in DOMAIN tasks
    /\ IF at = "recover"
       THEN UNCHANGED <<tasks, tags>>
       ELSE /\ tasks[task_id].category # "url" => tasks[task_id].target \in files
            /\ tasks' = mark_recovered(tasks, task_id)
            /\ tags' = delete_tag_orphans(tags, tasks', machines)
    /\ ret' = Return("reschedule", None, "debug")
    /\ UNCHANGED <<samples, machines, files, now, pc, loc, claims, holders, leases, guests, errors>>

\* ------------------------------------------------ machines, one process
\* The machines the machinery configuration registers with add_machine: name,
\* label, platform and the comma separated tags (as the list split makes).
MachineConfigs ==
    {[name |-> "vm1", label |-> "vm1", platform |-> "windows", tags |-> <<"x">>],
     [name |-> "vm2", label |-> "vm2", platform |-> "windows", tags |-> <<>>],
     [name |-> "vm3", label |-> "vm3", platform |-> "linux", tags |-> <<"x", "y">>]}

\* Machine(name, label, ...): locked defaults to False, the timestamps and
\* the status to NULL; add_machine is given no interface here.
Machine(cfg) ==
    [name |-> cfg.name, label |-> cfg.label, platform |-> cfg.platform,
     tags |-> Range(cfg.tags), locked |-> FALSE, locked_changed_on |-> NoTime,
     interface |-> "", status |-> "", status_changed_on |-> NoTime]

\* add_machine(...): each configured machine is registered once.
AddMachine(cfg) ==
    /\ NextId(machines) <= MaxMachines
    /\ \A m \in DOMAIN machines : machines[m].label # cfg.label
    /\ IF tags_rejected(tags, cfg.tags)
       THEN /\ ret' = Return("add_machine", None, "debug")
            /\ UNCHANGED <<machines, tags>>
       ELSE /\ machines' = machines @@ (NextId(machines) :> Machine(cfg))
            /\ tags' = delete_tag_orphans(tags \cup Range(cfg.tags), tasks, machines')
            /\ ret' = Return("add_machine", None, "")
    /\ UNCHANGED <<tasks, samples, files, now, pc, loc, claims, holders, leases, guests, errors>>

\* wrong_usage with the second check, label with tags, left out.
wrong_usage_label_platform(label, platform, tl) ==
    label # "" /\ platform # ""

\* The preventive checks of lock_machine: label with platform, label with tags.
wrong_usage(label, platform, tl) ==
    (label # "" /\ platform # "") \/ (label # "" /\ tl # <<>>)

\* candidates with the lock state filtered before the count.
candidates_unlocked(ms, label, platform, tl) ==
    {m \in DOMAIN ms : /\ (label = "" \/ ms[m].label = label)
                       /\ (platform = "" \/ ms[m].platform = platform)
                       /\ \A i \in DOMAIN tl : tl[i] \in ms[m].tags
                       /\ ~ms[m].locked}

\* candidates with one requested tag enough: tags.any(name in requested).
candidates_some_tag(ms, label, platform, tl) ==
    {m \in DOMAIN ms : /\ (label = "" \/ ms[m].label = label)
                       /\ (platform = "" \/ ms[m].platform = platform)
                       /\ (tl = <<>> \/ \E i \in DOMAIN tl : tl[i] \in ms[m].tags)}

\* machines.filter_by(label=...).filter_by(platform=...).filter(tags.any(...))
candidates(ms, label, platform, tl) ==
    {m \in DOMAIN ms : /\ (label = "" \/ ms[m].label = label)
                       /\ (platform = "" \/ ms[m].platform = platform)
                       /\ \A i \in DOMAIN tl : tl[i] \in ms[m].tags}

\* first_free without the filter on locked.
first_candidate(ms, cand) == cand

\* machines.filter_by(locked=False).first(): no ORDER BY, any free candidate.
first_free(ms, cand) == {m \in cand : ~ms[m].locked}

\* set_locked written to every row of the table.
set_locked_every_row(ms, m, locked, t) ==
    [i \in DOMAIN ms |-> [ms[i] EXCEPT !.locked = locked,
                                        !.locked_changed_on = t]]

\* set_locked without the timestamp.
set_locked_flag_only(ms, m, locked, t) == [ms EXCEPT ![m].locked = locked]

\* machine.locked = ...; machine.locked_changed_on = datetime.now(); commit
set_locked(ms, m, locked, t) ==
    [ms EXCEPT ![m].locked = locked, ![m].locked_changed_on = t]

\* The selections callers ask lock_machine for: label, platform, tags.
LockArgs ==
    {<<"", "", <<>>>>, <<"vm1", "", <<>>>>, <<"vm2", "", <<>>>>,
     <<"vm9", "", <<>>>>, <<"", "windows", <<>>>>, <<"", "", <<"x">>>>,
     <<"", "windows", <<"x">>>>, <<"vm1", "windows", <<>>>>,
     <<"vm1", "", <<"x">>>>, <<"vm2", "linux", <<"y">>>>,
     <<"", "", <<"x", "y">>>>}

\* lock_machine(label, platform, tags) under the class lock, called by p.
LockMachine(p, label, platform, tl) ==
    /\ IF wrong_usage(label, platform, tl)
       THEN /\ ret' = Return("lock_machine", None, "error")
            /\ UNCHANGED <<machines, tags, holders, leases, guests, errors>>
       ELSE IF candidates(machines, label, platform, tl) = {}
       THEN /\ ret' = Return("lock_machine", None, "raise CuckooOperationalError")
            /\ UNCHANGED <<machines, tags, holders, leases, guests, errors>>
       ELSE IF first_free(machines, candidates(machines, label, platform, tl)) = {}
       THEN /\ ret' = Return("lock_machine", None, "")
            /\ UNCHANGED <<machines, tags, holders, leases, guests, errors>>
       ELSE \E m \in first_free(machines, candidates(machines, label, platform, tl)) :
            /\ machines' = set_locked(machines, m, TRUE, now)
            /\ tags' = delete_tag_orphans(tags, tasks, machines')
            /\ holders' = [holders EXCEPT ![m] = @ \cup {p}]
            /\ leases' = leases \cup {<<machines[m].label, p>>}
            /\ ret' = Return("lock_machine", m, "")
    /\ UNCHANGED <<tasks, samples, files, now, pc, loc, claims, guests, errors>>

\* query(Machine).filter_by(label=label).first()
by_label(ms, label) == {m \in DOMAIN ms : ms[m].label = label}

\* unlock_machine(label) under the class lock, called by p.
UnlockMachine(p, label) ==
    /\ IF by_label(machines, label) = {}
       THEN /\ ret' = Return("unlock_machine", None, "")
            /\ UNCHANGED <<machines, tags, holders, leases, guests, errors>>
       ELSE \E m \in by_label(machines, label) :
            /\ machines' = set_locked(machines, m, FALSE, now)
            /\ tags' = delete_tag_orphans(tags, tasks, machines')
            /\ holders' = [holders EXCEPT ![m] = {}]
            /\ leases' = leases \ {<<label, p>>}
            /\ ret' = Return("unlock_machine", m, "")
    /\ UNCHANGED <<tasks, samples, files, now, pc, loc, claims, guests, errors>>

\* The statuses and the interfaces the machinery reports.
MachineStatuses == {"running"}
Interfaces == {"tap0"}

\* A status update that also releases the machine.
set_machine_status_row_unlocking(ms, m, status, t) ==
    [ms EXCEPT ![m].status = status, ![m].status_changed_on = t,
               ![m].locked = FALSE, ![m].locked_changed_on = t]

\* machine.status = status; machine.status_changed_on = datetime.now(); commit
set_machine_status_row(ms, m, status, t) ==
    [ms EXCEPT ![m].status = status, ![m].status_changed_on = t]

\* set_machine_status(label, status): nothing is done for a label no machine
\* has.
SetMachineStatus(label, status) ==
    /\ IF by_label(machines, label) = {}
       THEN UNCHANGED <<machines, tags>>
       ELSE \E m \in by_label(machines, label) :
            /\ machines' = set_machine_status_row(machines, m, status, now)
            /\ tags' = delete_tag_orphans(tags, tasks, machines')
    /\ ret' = Return("set_machine_status", None, "")
    /\ UNCHANGED <<tasks, samples, files, now, pc, loc, claims, holders, leases,
                   guests, errors>>

\* set_machine_interface(label, interface): machine.interface = interface;
\* commit.  A label no machine has is logged and None returned.
SetMachineInterface(label, interface) ==
    /\ IF by_label(machines, label) = {}
       THEN /\ ret' = Return("set_machine_interface", None, "debug")
            /\ UNCHANGED <<machines, tags>>
       ELSE \E m \in by_label(machines, label) :
            /\ machines' = [machines EXCEPT ![m].interface = interface]
            /\ tags' = delete_tag_orphans(tags, tasks, machines')
            /\ ret' = Return("set_machine_interface", None, "")
    /\ UNCHANGED <<tasks, samples, files, now, pc, loc, claims, holders, leases,
                   guests, errors>>

\* clean_machines(): machines_tags is emptied through the engine and the rows
\* of machines by a bulk DELETE.  The session holds no object, so its commit
\* flushes nothing and the after_flush listener is not called.
CleanMachines ==
    /\ machines' = <<>>
    /\ holders' = [m \in 1..MaxMachines |-> {}]
    /\ ret' = Return("clean_machines", None, "")
    /\ UNCHANGED <<tasks, samples, tags, files, now, pc, loc, claims, leases, guests, errors>>

\* query(Machine).filter_by(name=name).first()
by_name(ms, name) == {m \in DOMAIN ms : ms[m].name = name}

\* delete_machine(name): session.delete(machine); commit.  With no such row
\* session.delete(None) fails, which is logged and rolled back.
DeleteMachine(name) ==
    /\ IF by_name(machines, name) = {}
       THEN /\ ret' = Return("delete_machine", None, "info")
            /\ UNCHANGED <<machines, tags, holders>>
       ELSE \E m \in by_name(machines, name) :
            /\ machines' = without(machines, {m})
            /\ tags' = delete_tag_orphans(tags, tasks, machines')
            /\ holders' = [holders EXCEPT ![m] = {}]
            /\ ret' = Return("delete_machine", m, "")
    /\ UNCHANGED <<tasks, samples, files, now, pc, loc, claims, leases, guests, errors>>

\* ----------------------------------------------------- guests and errors
\* The machine the analysis manager starts guests on: name, label, manager.
GuestArgs == {[name |-> "vm1", label |-> "vm1", manager |-> "KVM"]}

\* Guest(name, label, manager) as the commit stores it for the task:
\* started_on defaults to datetime.now, shutdown_on is NULL.
Guest(a, task_id, t) ==
    [name |-> a.name, label |-> a.label, manager |-> a.manager,
     started_on |-> t, shutdown_on |-> NoTime, task_id |-> task_id]

\* guests.task_id with the unique constraint left out.
guest_conflict_never(gs, task_id) == FALSE

\* guests.task_id is unique and NOT NULL.  Task.guest is a scalar without
\* delete-orphan: giving the task a new Guest sends an INSERT with a task_id
\* that is taken and sets the task_id of the Guest it had to NULL; the store
\* refuses either (IntegrityError).
guest_conflict(gs, task_id) == \E g \in DOMAIN gs : gs[g].task_id = task_id

\* guest_start(task_id, name, label, manager):
\*   session.query(Task).get(task_id).guest = guest; commit; return guest.id.
\* With no such task get() gives None and the assignment raises
\* AttributeError, which the method does not catch (it catches
\* SQLAlchemyError).
GuestStart(task_id, a) ==
    /\ NextId(guests) <= MaxGuests
    /\ IF task_id \notin DOMAIN tasks
       THEN /\ ret' = Return("guest_start", None, "raise AttributeError")
            /\ UNCHANGED <<guests, tags>>
       ELSE IF guest_conflict(guests, task_id)
       THEN /\ ret' = Return("guest_start", None, "debug")
            /\ UNCHANGED <<guests, tags>>
       ELSE /\ guests' = guests @@ (NextId(guests) :> Guest(a, task_id, now))
            /\ tags' = delete_tag_orphans(tags, tasks, machines)
            /\ ret' = Return("guest_start", NextId(guests), "")
    /\ UNCHANGED <<tasks, samples, machines, files, now, pc, loc, claims,
                   holders, leases, errors>>

\* guest_stop(guest_id):
\*   session.query(Guest).get(guest_id).shutdown_on = datetime.now(); commit.
\* With no such guest the assignment to None raises AttributeError; the
\* method catches SQLAlchemyError and TypeError.
GuestStop(guest_id) ==
    /\ IF guest_id \notin DOMAIN guests
       THEN /\ ret' = Return("guest_stop", None, "raise AttributeError")
            /\ UNCHANGED <<guests, tags>>
       ELSE /\ guests' = [guests EXCEPT ![guest_id].shutdown_on = now]
            /\ tags' = delete_tag_orphans(tags, tasks, machines)
            /\ ret' = Return("guest_stop", None, "")
    /\ UNCHANGED <<tasks, samples, machines, files, now, pc, loc, claims,
                   holders, leases, errors>>

\* guest_remove(guest_id): session.delete(guest); commit.  With no such guest
\* session.delete(None) fails (UnmappedInstanceError, a SQLAlchemyError):
\* logged and rolled back.
GuestRemove(guest_id) ==
    /\ IF guest_id \notin DOMAIN guests
       THEN /\ ret' = Return("guest_remove", None, "debug")
            /\ UNCHANGED <<guests, tags>>
       ELSE /\ guests' = without(guests, {guest_id})
            /\ tags' = delete_tag_orphans(tags, tasks, machines)
            /\ ret' = Return("guest_remove", None, "")
    /\ UNCHANGED <<tasks, samples, machines, files, now, pc, loc, claims,
                   holders, leases, errors>>

\* The messages the analysis manager records.
Messages == {"e1", "e2"}

\* Error(message=message, task_id=task_id)
Error(message, task_id) == [message |-> message, task_id |-> task_id]

\* An insert that keeps one Error per task: the earlier ones are replaced.
error_insert_replacing(es, message, task_id) ==
    without(es, {e \in DOMAIN es : es[e].task_id = task_id})
        @@ (NextId(es) :> Error(message, task_id))

\* session.add(error); session.commit()
error_insert(es, message, task_id) ==
    es @@ (NextId(es) :> Error(message, task_id))

\* add_error(message, task_id): one Error row is inserted.  For a task_id
\* that no task has, a store that enforces the foreign key refuses the row
\* (logged, rolled back) and one that does not (SQLite) keeps it.
AddError(message, task_id) ==
    /\ NextId(errors) <= MaxErrors
    /\ \/ /\ errors' = error_insert(errors, message, task_id)
          /\ tags' = delete_tag_orphans(tags, tasks, machines)
          /\ ret' = Return("add_error", None, "")
       \/ /\ task_id \notin DOMAIN tasks
          /\ ret' = Return("add_error", None, "debug")
          /\ UNCHANGED <<errors, tags>>
    /\ UNCHANGED <<tasks, samples, machines, files, now, pc, loc, claims,
                   holders, leases, guests>>

\* session.query(Error).filter_by(task_id=task_id).all(): the rows, by id.
view_errors(es, task_id) == {e \in DOMAIN es : es[e].task_id = task_id}

ViewErrors(task_id) ==
    /\ ret' = Return("view_errors", view_errors(errors, task_id), "")
    /\ UNCHANGED <<store, files, now, pc, loc, claims, holders, leases,
                   guests, errors>>

\* ------------------------------------------- the queue, several processes
\* Each process runs its methods one at a time (its own class lock); the
\* statements of different processes interleave.  pc[p] is the statement p
\* is about to send, loc[p] the locals of the method it is in.
Goto(p, label, locals) ==
    /\ pc' = [pc EXCEPT ![p] = label]
    /\ loc' = [loc EXCEPT ![p] = locals]

\* The fetch call of p returned the task.
claimed(cl, t, p) == [cl EXCEPT ![t] = @ \cup {p}]

\* fetch, lines 620-625: the SELECT of the pending row.
FetchSelect(p, machine) ==
    /\ pc[p] = "idle"
    /\ IF pending_rows(tasks, machine) = {}
       THEN /\ ret' = Return("fetch", None, "")
            /\ UNCHANGED <<pc, loc>>
       ELSE \E row \in order_first(tasks, pending_rows(tasks, machine)) :
            /\ Goto(p, "fetch_set_status", [row |-> row])
            /\ UNCHANGED ret
    /\ UNCHANGED <<store, files, now, claims, holders, leases, guests, errors>>

\* fetch, line 628: set_status(row.id, TASK_RUNNING), a transaction of its own.
FetchSetStatus(p) ==
    /\ pc[p] = "fetch_set_status"
    /\ tasks' = set_status(tasks, loc[p].row, TASK_RUNNING, now)
    /\ tags' = delete_tag_orphans(tags, tasks', machines)
    /\ Goto(p, "fetch_refresh", loc[p])
    /\ UNCHANGED <<samples, machines, files, now, ret, claims, holders, leases, guests, errors>>

\* fetch, lines 629-631: session.refresh(row); return row.
FetchReturn(p) ==
    /\ pc[p] = "fetch_refresh"
    /\ ret' = Return("fetch", loc[p].row, "")
    /\ claims' = claimed(claims, loc[p].row, p)
    /\ Goto(p, "idle", <<>>)
    /\ UNCHANGED <<store, files, now, holders, leases, guests, errors>>

\* add, lines 957-985: the INSERT of the sample and its commit; the unique
\* index decides between the processes.
AddSample(p, req) ==
    /\ pc[p] = "idle"
    /\ req[1] = "file" /\ req[2] \in files
    /\ IF sample_conflict(samples, FileContent(req[2]))
       THEN /\ Goto(p, "add_reread", [req |-> req])
            /\ UNCHANGED <<samples, tags>>
       ELSE /\ samples' = sample_insert(samples, FileContent(req[2]), None)
            /\ tags' = delete_tag_orphans(tags, tasks, machines)
            /\ Goto(p, "add_tags", [req |-> req, sid |-> NextId(samples)])
    /\ UNCHANGED <<tasks, machines, files, now, ret, claims, holders, leases, guests, errors>>

\* add, line 977: after the IntegrityError, the re-read by md5.
AddReread(p) ==
    /\ pc[p] = "add_reread"
    /\ \E s \in sample_reread(samples, FileContent(loc[p].req[2])) :
          Goto(p, "add_tags", [req |-> loc[p].req, sid |-> s])
    /\ UNCHANGED <<store, files, now, ret, claims, holders, leases, guests, errors>>

\* add, lines 987-1023: the tag list and the _get_or_create of each name: the
\* SELECTs that find the Tag rows there are now.  found are the names whose
\* row the session holds from here on.
AddTags(p) ==
    /\ pc[p] = "add_tags"
    /\ LET req == loc[p].req
           tl == add_64bit_tag(req[3].tags, get_type(FileContent(req[2])),
                               req[3].machine)
       IN Goto(p, "add_task", [req |-> req, sid |-> loc[p].sid, tl |-> tl,
                               found |-> Range(tl) \cap tags])
    /\ UNCHANGED <<store, files, now, ret, claims, holders, leases, guests, errors>>

\* session.add(task); session.commit() of a session that looked the names in
\* found up earlier: the outcomes of the flush on the store as it is now.
\*   - a name to create was created twice here, or by another process since
\*     the lookup: the unique column refuses the INSERT, rollback;
\*   - a row found was deleted since the lookup: the INSERT into tasks_tags
\*     carries the id of a row that is gone; a store that enforces foreign
\*     keys refuses it (rollback), one that does not (SQLite as connected
\*     here) keeps the association.
task_commit_found(ts, tg, ms, row, tl, found) ==
    LET created == Range(tl) \ found
        ts2 == ts @@ (NextId(ts) :> row)
        rollback == [tasks |-> ts, tags |-> tg, val |-> None, log |-> "debug"]
        committed == [tasks |-> ts2,
                      tags |-> delete_tag_orphans(tg \cup created, ts2, ms),
                      val |-> NextId(ts), log |-> ""]
    IN IF tags_rejected(found, tl) \/ created \cap tg # {}
       THEN {rollback}
       ELSE IF found \subseteq tg THEN {committed}
       ELSE {rollback, committed}

\* add, lines 1025-1050: the clock, session.add(task) and the final commit.
AddTask(p) ==
    /\ pc[p] = "add_task"
    /\ LET req == loc[p].req
       IN \E o \in task_commit_found(tasks, tags, machines,
                      Task(req[2], req[1], req[3], loc[p].sid, loc[p].tl,
                           NoTime, now),
                      loc[p].tl, loc[p].found) :
             /\ tasks' = o.tasks
             /\ tags' = o.tags
             /\ ret' = Return("add", o.val, o.log)
    /\ Goto(p, "idle", <<>>)
    /\ UNCHANGED <<samples, machines, files, now, claims, holders, leases, guests, errors>>

\* ---------------------------------------- machines, several processes
\* lock_machine, lines 720-755: the checks and the SELECT of a free machine.
LockSelect(p, label, platform, tl) ==
    /\ pc[p] = "idle"
    /\ IF wrong_usage(label, platform, tl)
       THEN /\ ret' = Return("lock_machine", None, "error")
            /\ UNCHANGED <<pc, loc>>
       ELSE IF candidates(machines, label, platform, tl) = {}
       THEN /\ ret' = Return("lock_machine", None, "raise CuckooOperationalError")
            /\ UNCHANGED <<pc, loc>>
       ELSE IF first_free(machines, candidates(machines, label, platform, tl)) = {}
       THEN /\ ret' = Return("lock_machine", None, "")
            /\ UNCHANGED <<pc, loc>>
       ELSE \E m \in first_free(machines, candidates(machines, label, platform, tl)) :
            /\ Goto(p, "lock_commit", [machine |-> m])
            /\ UNCHANGED ret
    /\ UNCHANGED <<store, files, now, claims, holders, leases, guests, errors>>

\* lock_machine, lines 757-772: the UPDATE of the row selected, by its id, the
\* commit and the return of the machine.
LockCommit(p) ==
    /\ pc[p] = "lock_commit"
    /\ machines' = set_locked(machines, loc[p].machine, TRUE, now)
    /\ tags' = delete_tag_orphans(tags, tasks, machines')
    /\ holders' = [holders EXCEPT ![loc[p].machine] = @ \cup {p}]
    /\ leases' = leases \cup {<<machines[loc[p].machine].label, p>>}
    /\ ret' = Return("lock_machine", loc[p].machine, "")
    /\ Goto(p, "idle", <<>>)
    /\ UNCHANGED <<tasks, samples, files, now, claims, guests, errors>>

\* ---------------------------------------------------------- specifications
\* The tasks table has room for one more row within the bound.
Room(max) == Cardinality(DOMAIN tasks) < max

\* Spec: the life of a task, one process, within one tick of the clock.
Next ==
    \/ \E path \in Paths : RemoveFile(path)
    \/ \E req \in LifeRequests : Room(MaxTasks) /\ Submit(req)
    \/ \E t \in 1..MaxTasks, st \in StatusArgs : SetStatus(t, st)
    \/ \E lock \in BOOLEAN, machine \in {"", "vm1"} : Fetch(lock, machine)
    \/ \E t \in 1..MaxTasks : Room(MaxTasks) /\ Reschedule(t)

Spec == Init /\ [][Next]_vars

\* SpecQueue: submission and dispatch, one process.
NextQueue ==
    \/ Tick
    \/ \E req \in Requests : Room(MaxQueue) /\ Submit(req)
    \/ \E lock \in BOOLEAN, machine \in {"", "vm1"} : Fetch(lock, machine)

SpecQueue == Init /\ [][NextQueue]_vars

\* SpecSubmit: submission alone, one process.
NextSubmit ==
    \/ Tick
    \/ \E req \in Requests : Room(MaxTasks) /\ Submit(req)

SpecSubmit == Init /\ [][NextSubmit]_vars

\* SpecFault: the queue on a store that may fail, one process.
FaultRequests ==
    {<<"file", "/tmp/a", FullArgs>>, <<"file", "/tmp/b", DefaultArgs>>,
     <<"url", "http://u", MachineArgs>>}

NextFault ==
    \/ \E req \in FaultRequests : Room(MaxTasks) /\ Submit(req)
    \/ \E req \in FaultRequests, at \in {"sample", "task"} : SubmitFault(req, at)
    \/ \E t \in 1..MaxTasks, st \in {TASK_RUNNING, TASK_COMPLETED} : SetStatus(t, st)
    \/ \E t \in 1..MaxTasks, st \in {TASK_RUNNING, TASK_COMPLETED} :
          SetStatusFault(t, st)
    \/ \E machine \in {"", "vm1"} : Fetch(TRUE, machine)
    \/ \E machine \in {"", "vm1"}, at \in {"select", "set_status"} :
          FetchFault(machine, at)
    \/ \E t \in 1..MaxTasks : Room(MaxTasks) /\ Reschedule(t)
    \/ \E t \in 1..MaxTasks, at \in {"recover", "add"} : RescheduleFault(t, at)

SpecFault == Init /\ [][NextFault]_vars

\* SpecLease: the machines and their locks, one process with one caller.
Labels == {"vm1", "vm2", "vm9"}

NextLease ==
    \/ Tick
    \/ \E cfg \in MachineConfigs : AddMachine(cfg)
    \/ \E a \in LockArgs : LockMachine("p1", a[1], a[2], a[3])
    \/ \E label \in Labels : UnlockMachine("p1", label)

SpecLease == Init /\ [][NextLease]_vars

\* SpecHolders: the callers of one process taking, releasing and
\* re-registering machines, each call under the class lock.
NextHolders ==
    \/ \E cfg \in MachineConfigs : AddMachine(cfg)
    \/ \E p \in Procs, a \in LockArgs : LockMachine(p, a[1], a[2], a[3])
    \/ \E p \in Procs, label \in Labels : UnlockMachine(p, label)
    \/ CleanMachines

SpecHolders == Init /\ [][NextHolders]_vars

\* SpecTags: the tags of tasks and machines, one process.
TagRequests ==
    {<<"file", "/tmp/a", FullArgs>>, <<"file", "/tmp/b", DefaultArgs>>,
     <<"url", "http://u", DefaultArgs>>}

NextTags ==
    \/ \E cfg \in MachineConfigs : AddMachine(cfg)
    \/ CleanMachines
    \/ \E name \in Labels : DeleteMachine(name)
    \/ \E req \in TagRequests : Room(MaxTasks) /\ Submit(req)
    \/ \E t \in 1..MaxTasks : DeleteTask(t)

SpecTags == Init /\ [][NextTags]_vars

\* SpecConc: submission and dispatch by processes sharing the store.
ConcRequests == {<<"file", path, DefaultArgs>> : path \in Paths}

NextConc ==
    \/ \E p \in Procs, req \in ConcRequests : Room(MaxTasks) /\ AddSample(p, req)
    \/ \E p \in Procs : AddReread(p)
    \/ \E p \in Procs : AddTags(p)
    \/ \E p \in Procs : AddTask(p)
    \/ \E p \in Procs : FetchSelect(p, "")
    \/ \E p \in Procs : FetchSetStatus(p)
    \/ \E p \in Procs : FetchReturn(p)

SpecConc == Init /\ [][NextConc]_vars

\* SpecConcTags: submission by one process while another deletes tasks.
NextConcTags ==
    \/ \E p \in Procs, req \in ConcRequests : Room(MaxTasks) /\ AddSample(p, req)
    \/ \E p \in Procs : AddReread(p)
    \/ \E p \in Procs : AddTags(p)
    \/ \E p \in Procs : AddTask(p)
    \/ \E p \in Procs, t \in 1..MaxTasks : pc[p] = "idle" /\ DeleteTask(t)

SpecConcTags == Init /\ [][NextConcTags]_vars

\* SpecConcLease: the machine locks taken by processes sharing the store.
NextConcLease ==
    \/ Tick
    \/ \E cfg \in MachineConfigs : AddMachine(cfg)
    \/ \E p \in Procs, a \in LockArgs : LockSelect(p, a[1], a[2], a[3])
    \/ \E p \in Procs : LockCommit(p)
    \/ \E p \in Procs, label \in Labels : pc[p] = "idle" /\ UnlockMachine(p, label)

SpecConcLease == Init /\ [][NextConcLease]_vars

\* Guests: tasks are submitted, deleted, and guests logged for them.
GuestRequests == {<<"url", "http://u", DefaultArgs>>}

NextGuests ==
    \/ Tick
    \/ \E req \in GuestRequests : Room(MaxTasks) /\ Submit(req)
    \/ \E t \in 1..MaxTasks : \E a \in GuestArgs : GuestStart(t, a)
    \/ \E g \in 1..MaxGuests : GuestStop(g)
    \/ \E g \in 1..MaxGuests : GuestRemove(g)
    \/ \E t \in 1..MaxTasks : DeleteTask(t)

SpecGuests == Init /\ [][NextGuests]_vars

\* One task taken through set_status with every status a caller may pass.
StatusRequests == {<<"url", "http://u", DefaultArgs>>}

NextStatus ==
    \/ Tick
    \/ \E req \in StatusRequests : Room(MaxStatusTasks) /\ Submit(req)
    \/ \E t \in 1..MaxStatusTasks, st \in StatusArgs : SetStatus(t, st)

SpecStatus == Init /\ [][NextStatus]_vars

\* Archives: files are submitted one by one and through the demultiplexer.
DemuxArgs == {DefaultArgs, [DefaultArgs EXCEPT !.options = "file=B"]}

DemuxRequests == {<<"file", path, DefaultArgs>> : path \in Paths}

NextDemux ==
    \/ Tick
    \/ \E req \in DemuxRequests : Room(MaxQueue) /\ Submit(req)
    \/ \E path \in Archives \cup {"/tmp/a"}, a \in DemuxArgs, static \in BOOLEAN :
          Demux(path, a, static)

SpecDemux == Init /\ [][NextDemux]_vars

\* Tag names: URLs are submitted with the tags strings of RawTags.
TagNameRequest(s) == <<"url", "http://u", [DefaultArgs EXCEPT !.tags = split_tags(s)]>>

NextTagNames ==
    \/ Tick
    \/ \E s \in RawTags : Room(MaxTasks) /\ Submit(TagNameRequest(s))
    \/ \E t \in 1..MaxTasks : DeleteTask(t)

SpecTagNames == Init /\ [][NextTagNames]_vars

\* Errors: tasks are submitted, run, deleted, and errors recorded for them.
ErrorRequests == {<<"url", "http://u", DefaultArgs>>}

NextErrors ==
    \/ Tick
    \/ \E req \in ErrorRequests : Room(MaxStatusTasks) /\ Submit(req)
    \/ \E t \in 1..MaxStatusTasks : SetStatus(t, TASK_RUNNING)
    \/ \E t \in 1..MaxStatusTasks, message \in Messages : AddError(message, t)
    \/ \E t \in 1..MaxStatusTasks : ViewErrors(t)
    \/ \E t \in 1..MaxStatusTasks : DeleteTask(t)

SpecErrors == Init /\ [][NextErrors]_vars

\* The status and the interface of the machines, reported while the machines
\* are taken and released by their labels.
NextMachineStatus ==
    \/ Tick
    \/ \E cfg \in MachineConfigs : AddMachine(cfg)
    \/ \E label \in Labels : LockMachine("p1", label, "", <<>>)
    \/ \E label \in Labels : UnlockMachine("p1", label)
    \/ \E label \in Labels, status \in MachineStatuses :
          SetMachineStatus(label, status)
    \/ \E label \in Labels, interface \in Interfaces :
          SetMachineInterface(label, interface)

SpecMachineStatus == Init /\ [][NextMachineStatus]_vars

\* Samples: the same contents submitted alone, through an archive and again
\* by reschedule, and tasks deleted.
NextSamples ==
    \/ \E req \in DemuxRequests : Room(MaxTasks) /\ Submit(req)
    \/ \E a \in DemuxArgs, static \in BOOLEAN : Demux("/tmp/z", a, static)
    \/ \E t \in 1..MaxTasks : Room(MaxTasks) /\ Reschedule(t)
    \/ \E t \in 1..MaxTasks : DeleteTask(t)

SpecSamples == Init /\ [][NextSamples]_vars

\* Dispatch: tasks are submitted while the scheduler keeps calling
\* fetch(lock=True); the loop of the scheduler never stops calling, which is
\* the weak fairness of Fetch.
DispatchRequests ==
    {<<"file", "/tmp/a", DefaultArgs>>, <<"file", "/tmp/a", FullArgs>>,
     <<"url", "http://u", MachineArgs>>}

NextDispatch ==
    \/ Tick
    \/ \E req \in DispatchRequests : Room(MaxTasks) /\ Submit(req)
    \/ Fetch(TRUE, "")

SpecDispatch == Init /\ [][NextDispatch]_vars /\ WF_vars(Fetch(TRUE, ""))

\* One caller at a time submits, fetches, re-schedules, deletes and sets
\* statuses other than pending.
OnceRequests == {<<"url", "http://u", MachineArgs>>}

OnceStatuses ==
    {TASK_RUNNING, TASK_COMPLETED, TASK_DISTRIBUTED_COMPLETED, "bogus"}

NextOnce ==
    \/ \E req \in OnceRequests : Room(MaxTasks) /\ Submit(req)
    \/ \E t \in 1..MaxTasks, st \in OnceStatuses : SetStatus(t, st)
    \/ \E machine \in {"", "vm1"} : Fetch(TRUE, machine)
    \/ \E t \in 1..MaxTasks : Room(MaxTasks) /\ Reschedule(t)
    \/ \E t \in 1..MaxTasks : DeleteTask(t)

SpecOnce == Init /\ [][NextOnce]_vars

\* Cascade: tasks with a guest and errors are deleted.
CascadeRequests == {<<"url", "http://u", DefaultArgs>>}

NextCascade ==
    \/ \E req \in CascadeRequests : Room(MaxTasks) /\ Submit(req)
    \/ \E t \in 1..MaxTasks, a \in GuestArgs : GuestStart(t, a)
    \/ \E t \in 1..MaxTasks : AddError("e1", t)
    \/ \E t \in 1..MaxTasks : DeleteTask(t)

SpecCascade == Init /\ [][NextCascade]_vars

\* Frame of the lease: machines are registered, taken, released and
\* cleaned while a tagged task is in the queue.
FrameRequests == {<<"url", "http://u", [DefaultArgs EXCEPT !.tags = <<"x">>]>>}

FrameLockArgs ==
    {<<"", "", <<>>>>, <<"vm9", "", <<>>>>, <<"", "", <<"x">>>>,
     <<"vm1", "windows", <<>>>>}

NextFrame ==
    \/ Tick
    \/ \E req \in FrameRequests : Room(MaxStatusTasks) /\ Submit(req)
    \/ \E cfg \in MachineConfigs : AddMachine(cfg)
    \/ \E a \in FrameLockArgs : LockMachine("p1", a[1], a[2], a[3])
    \/ \E label \in Labels : UnlockMachine("p1", label)
    \/ CleanMachines

SpecFrame == Init /\ [][NextFrame]_vars

\* ------------------------------------------------------------------ claims
\* C1: processes that call fetch (lock=True) concurrently are never returned
\* the same Task: no task is handed to two callers.  (SpecConc)
C1_NoTaskClaimedTwice ==
    \A t \in TaskIds : Cardinality(claims[t]) <= 1

\* C2: of the callers racing to lock one machine exactly one is returned it;
\* no two callers hold a successful lock on a machine with no unlock in
\* between.  (SpecConcLease)
C2_ExclusiveLease ==
    \A m \in 1..MaxMachines : Cardinality(holders[m]) <= 1

\* C3: the task fetch returns is pending, asks for the machine when one is
\* passed, and no pending task (asking for that machine) has a higher
\* priority.  (SpecQueue)
C3_HighestPriorityFirst ==
    [][\A lock \in BOOLEAN, machine \in {"", "vm1"} :
          (Fetch(lock, machine) /\ ret'.val # None) =>
              /\ ret'.val \in DOMAIN tasks
              /\ tasks[ret'.val].status = "pending"
              /\ (machine # "" => tasks[ret'.val].machine = machine)
              /\ \A u \in DOMAIN tasks :
                    (tasks[u].status = "pending"
                        /\ (machine = "" \/ tasks[u].machine = machine))
                    => tasks[u].priority <= tasks[ret'.val].priority]_vars

\* C3 witness: priorities 1, 5, 3 were submitted in that order; 5 was fetched,
\* and now 3 has been, with 1 still pending.
C3_Witness ==
    /\ DOMAIN tasks = {1, 2, 3}
    /\ <<tasks[1].priority, tasks[2].priority, tasks[3].priority>> = <<1, 5, 3>>
    /\ <<tasks[1].status, tasks[2].status, tasks[3].status>>
          = <<"pending", "running", "running">>
    /\ ret = Return("fetch", 3, "")

\* C4: of the pending tasks of equal priority fetch returns the one submitted
\* first (the lowest id), also when their added_on are equal.  (SpecQueue)
C4_FifoTieBreak ==
    [][\A lock \in BOOLEAN, machine \in {"", "vm1"} :
          (Fetch(lock, machine) /\ ret'.val # None) =>
              \A u \in DOMAIN tasks :
                    (/\ tasks[u].status = "pending"
                     /\ (machine = "" \/ tasks[u].machine = machine)
                     /\ tasks[u].priority = tasks[ret'.val].priority)
                    => ret'.val <= u]_vars

\* The transition table of the status state machine.
TransitionTable ==
    {<<"pending", "running">>, <<"running", "completed">>,
     <<"running", "failed_analysis">>, <<"completed", "reported">>,
     <<"completed", "failed_processing">>, <<"completed", "failed_reporting">>}

\* C5: set_status changes the status only along an edge of the transition
\* table; any other request leaves the status as it was.  (Spec)
C5_TransitionTableEnforced ==
    [][\A t \in 1..MaxTasks, st \in StatusArgs :
          (SetStatus(t, st) /\ t \in DOMAIN tasks) =>
              tasks'[t].status = IF <<tasks[t].status, st>> \in TransitionTable
                                 THEN st ELSE tasks[t].status]_vars

TerminalStatus ==
    {"recovered", "reported", "failed_analysis", "failed_processing",
     "failed_reporting"}

\* C6: once the status of a row is recovered, reported or failed_*, no
\* operation changes the status of that row again.  (Spec)
C6_TerminalIsFinal ==
    [][\A t \in DOMAIN tasks :
          tasks[t].status \in TerminalStatus
          => tasks'[t].status = tasks[t].status]_vars

\* The fields reschedule carries from the old row to the new one.
SameSubmission(old, new) ==
    /\ new.target = old.target
    /\ new.timeout = old.timeout
    /\ new.package = old.package
    /\ new.options = old.options
    /\ new.priority = old.priority
    /\ new.custom = old.custom
    /\ new.machine = old.machine
    /\ new.platform = old.platform
    /\ new.tags = old.tags
    /\ new.memory = old.memory
    /\ new.enforce_timeout = old.enforce_timeout
    /\ new.clock = old.clock

\* C7: reschedule of an existing task leaves it recovered and creates exactly
\* one new task: pending, with a fresh id and the fields of the old one.
\* (Spec)
C7_RescheduleClones ==
    [][\A t \in 1..MaxTasks :
          (Reschedule(t) /\ t \in DOMAIN tasks) =>
              /\ tasks'[t].status = "recovered"
              /\ ret'.val \notin DOMAIN tasks
              /\ DOMAIN tasks' = DOMAIN tasks \cup {ret'.val}
              /\ tasks'[ret'.val].status = "pending"
              /\ SameSubmission(tasks[t], tasks'[ret'.val])]_vars

\* C8: tasks submitted with the same file content reference the same Sample
\* row, and no two Sample rows have the same sha256.  (SpecQueue)
C8_OneSamplePerContent ==
    /\ \A t, u \in DOMAIN tasks :
          (/\ tasks[t].category # "url" /\ tasks[u].category # "url"
           /\ FileContent(tasks[t].target) = FileContent(tasks[u].target))
          => tasks[t].sample_id = tasks[u].sample_id
    /\ \A s1, s2 \in DOMAIN samples :
          samples[s1].sha256 = samples[s2].sha256 => s1 = s2

\* C9: when processes submit the same unseen content concurrently, one Sample
\* row persists for it and every caller's task gets that row: the row with
\* the sha256 of the content submitted.  (SpecConc)
C9_RaceResolvesToSameDigest ==
    /\ \A t \in DOMAIN tasks :
          /\ tasks[t].sample_id \in DOMAIN samples
          /\ samples[tasks[t].sample_id].sha256
                = get_sha256(FileContent(tasks[t].target))
    /\ \A s1, s2 \in DOMAIN samples :
          samples[s1].sha256 = samples[s2].sha256 => s1 = s2

\* C10: lock_machine called with a label and a platform, or with a label and
\* tags, is refused with an error and no machine row is changed.  (SpecLease)
C10_WrongUsageTouchesNothing ==
    [][\A p \in Procs, a \in LockArgs :
          (/\ LockMachine(p, a[1], a[2], a[3])
           /\ a[1] # ""
           /\ (a[2] # "" \/ a[3] # <<>>))
          => /\ ret' = Return("lock_machine", None, "error")
             /\ machines' = machines]_vars

\* C10 witness: the call was refused while the machine it names was free.
C10_Witness ==
    /\ ret = Return("lock_machine", None, "error")
    /\ \E m \in DOMAIN machines : machines[m].label = "vm1" /\ ~machines[m].locked

\* The machine row meets the selection a = <<label, platform, tags>>.
Matches(row, a) ==
    /\ (a[1] = "" \/ row.label = a[1])
    /\ (a[2] = "" \/ row.platform = a[2])
    /\ \A i \in DOMAIN a[3] : a[3][i] \in row.tags

\* The selection is one lock_machine accepts: not a label with a platform or
\* with tags.
Selectable(a) == ~(a[1] # "" /\ (a[2] # "" \/ a[3] # <<>>))

\* C11: lock_machine raises the no-machine error exactly when no machine,
\* locked or not, meets the selection; it does not raise when machines meet
\* it and all of them are locked.  (SpecLease)
C11_RaisesIffNoCandidate ==
    [][\A p \in Procs, a \in LockArgs :
          (LockMachine(p, a[1], a[2], a[3]) /\ Selectable(a)) =>
              ((ret'.log = "raise CuckooOperationalError")
                  <=> ~\E m \in DOMAIN machines : Matches(machines[m], a))]_vars

\* C11 witness: lock_machine returned nothing and did not raise, with every
\* registered machine locked.
C11_Witness ==
    /\ ret = Return("lock_machine", None, "")
    /\ DOMAIN machines # {}
    /\ \A m \in DOMAIN machines : machines[m].locked

\* C12: the machine lock_machine returns was unlocked before the call and is
\* stored locked with locked_changed_on the time of the call; when machines
\* meet the selection and all are locked the call returns None and raises
\* nothing.  (SpecLease)
C12_LockStampsFreeMachine ==
    [][\A p \in Procs, a \in LockArgs :
          LockMachine(p, a[1], a[2], a[3]) =>
              /\ ret'.val # None =>
                    /\ ret'.val \in DOMAIN machines
                    /\ ~machines[ret'.val].locked
                    /\ machines'[ret'.val].locked
                    /\ machines'[ret'.val].locked_changed_on = now
              /\ (/\ Selectable(a)
                  /\ \E m \in DOMAIN machines : Matches(machines[m], a)
                  /\ \A m \in DOMAIN machines :
                        Matches(machines[m], a) => machines[m].locked)
                 => /\ ret' = Return("lock_machine", None, "")
                    /\ machines' = machines]_vars

\* C12 witness: a machine was returned, locked, stamped after the clock moved.
C12_Witness ==
    /\ ret.op = "lock_machine"
    /\ ret.val \in DOMAIN machines
    /\ machines[ret.val].locked
    /\ machines[ret.val].locked_changed_on = 2

\* C13: the machine lock_machine returns has the smallest id of the unlocked
\* machines that meet the selection.  (SpecLease)
C13_SmallestIdSelected ==
    [][\A p \in Procs, a \in LockArgs :
          (LockMachine(p, a[1], a[2], a[3]) /\ ret'.val # None) =>
              \A m \in DOMAIN machines :
                  (Matches(machines[m], a) /\ ~machines[m].locked)
                  => ret'.val <= m]_vars

\* C14: unlock_machine(label) of a registered machine, locked or already
\* unlocked, returns that machine and leaves it with locked = False and
\* locked_changed_on the time of the call.  (SpecLease)
C14_UnlockIdempotent ==
    [][\A p \in Procs, label \in Labels :
          (/\ UnlockMachine(p, label)
           /\ \E m \in DOMAIN machines : machines[m].label = label)
          => /\ ret'.val \in DOMAIN machines
             /\ ret'.log = ""
             /\ machines[ret'.val].label = label
             /\ ~machines'[ret'.val].locked
             /\ machines'[ret'.val].locked_changed_on = now]_vars

\* C14 witness: an unlock returned a machine that an earlier call had already
\* stamped, and stamped it again after the clock moved, while another machine
\* stays locked.
C14_Witness ==
    /\ ret.op = "unlock_machine"
    /\ ret.val \in DOMAIN machines
    /\ ~machines[ret.val].locked
    /\ machines[ret.val].locked_changed_on = 2
    /\ \E m \in DOMAIN machines : machines[m].locked

\* C15: a locked machine has exactly one lease in flight and an unlocked
\* machine has none.  (SpecHolders)
C15_LockedIffOneHolder ==
    \A m \in DOMAIN machines :
        LET h == {p \in Procs : <<machines[m].label, p>> \in leases}
        IN IF machines[m].locked THEN Cardinality(h) = 1 ELSE h = {}

\* C16: after every operation no Tag row is left that no task and no machine
\* is associated with, and every Tag a task or a machine is associated with
\* is still a row: the tags table holds exactly the names in use.  (SpecTags)
C16_TagsAreTheTagsInUse ==
    tags = {n \in {"x", "y", "64_bit"} :
               \/ \E t \in DOMAIN tasks : n \in tasks[t].tags
               \/ \E m \in DOMAIN machines : n \in machines[m].tags}

\* C17: the cleanup of orphan tags never takes a Tag away from a submission
\* that has looked it up and not yet committed: every tag a task or a machine
\* is associated with is a row of the tags table.  (SpecConcTags)
C17_AssociationsReferToTags ==
    /\ \A t \in DOMAIN tasks : tasks[t].tags \subseteq tags
    /\ \A m \in DOMAIN machines : machines[m].tags \subseteq tags

\* C18: a submission whose clock string is in the format MM-DD-YYYY HH:MM:SS
\* stores that timestamp; one whose clock string does not parse, or that has
\* no clock, stores the epoch, and its task is created all the same.
\* (SpecSubmit)
C18_ClockParsedOrEpoch ==
    [][\A req \in Requests :
          Submit(req) =>
              /\ ret'.val # None =>
                    tasks'[ret'.val].clock =
                        IF req[3].clock = ClockStr("12-31-2024 23:59:00")
                        THEN 1735689540 ELSE EPOCH
              /\ req[3].clock \in {ClockStr("not-a-date"), NoClock} =>
                    /\ ret'.val \notin DOMAIN tasks
                    /\ ret'.val \in DOMAIN tasks']_vars

\* C18 witness: a task submitted with the clock 12-31-2024 23:59:00 and one
\* submitted with the clock not-a-date (the submission for vm1) are stored.
C18_Witness ==
    /\ \E t \in DOMAIN tasks : tasks[t].clock = 1735689540
    /\ \E t \in DOMAIN tasks : tasks[t].machine = "vm1" /\ tasks[t].clock = EPOCH

\* C19: the task fetch(lock=True) returns is stored running with started_on
\* stamped when it is returned; when the status could not be stored, fetch
\* returns no task.  (SpecFault)
C19_ReturnedTaskIsRunning ==
    [][\A machine \in {"", "vm1"} :
          (/\ \/ Fetch(TRUE, machine)
              \/ \E at \in {"select", "set_status"} : FetchFault(machine, at)
           /\ ret'.val # None)
          => /\ tasks'[ret'.val].status = "running"
             /\ tasks'[ret'.val].started_on = now]_vars

\* C20: a call during which the store fails returns None (or False) without
\* raising and leaves the tables as they were before the call.  (SpecFault)
C20_FailureRollsBack ==
    [][(\/ \E req \in FaultRequests, at \in {"sample", "task"} : SubmitFault(req, at)
        \/ \E t \in 1..MaxTasks, st \in {TASK_RUNNING, TASK_COMPLETED} :
              SetStatusFault(t, st)
        \/ \E machine \in {"", "vm1"}, at \in {"select", "set_status"} :
              FetchFault(machine, at)
        \/ \E t \in 1..MaxTasks, at \in {"recover", "add"} : RescheduleFault(t, at))
       => /\ ret'.val = None
          /\ ret'.log = "debug"
          /\ store' = store]_vars

\* C21: a call addressed to a task id that does not exist (guest_start,
\* delete_task) returns None without raising and leaves every table as it
\* was.  (SpecGuests)
C21_MissingRowReturnsNone ==
    [][\A t \in 1..MaxTasks :
          (/\ t \notin DOMAIN tasks
           /\ \/ \E a \in GuestArgs : GuestStart(t, a)
              \/ DeleteTask(t))
          => /\ ret'.val = None
             /\ ret'.log # "raise AttributeError"
             /\ <<store, guests, errors>>' = <<store, guests, errors>>]_vars

\* C22: guest_stop on a guest id that has no row raises nothing and changes
\* no row; on a guest that exists it stamps shutdown_on.  (SpecGuests)
C22_GuestStopTolerant ==
    [][\A g \in 1..MaxGuests :
          GuestStop(g) =>
             IF g \in DOMAIN guests
             THEN guests'[g].shutdown_on = now
             ELSE /\ ret'.log # "raise AttributeError"
                  /\ <<store, guests, errors>>' = <<store, guests, errors>>]_vars

\* C24: a task never has two Guest rows; guest_start for a task that has a
\* Guest either returns no guest id and leaves the Guest as it was, or puts
\* the new Guest in its place.  (SpecGuests)
C24_OneGuestPerTask ==
    /\ [](\A t \in 1..MaxTasks :
             Cardinality({g \in DOMAIN guests : guests[g].task_id = t}) <= 1)
    /\ [][\A t \in 1..MaxTasks, a \in GuestArgs :
             (GuestStart(t, a) /\ \E g \in DOMAIN guests : guests[g].task_id = t)
             => \/ ret'.val = None /\ guests' = guests
                \/ /\ ret'.val \in DOMAIN guests'
                   /\ guests'[ret'.val].task_id = t
                   /\ \A g \in DOMAIN guests' :
                         guests'[g].task_id = t => g = ret'.val]_vars

\* C24 witness: guest_start was refused for a task that keeps its Guest.
C24_Witness ==
    /\ ret = Return("guest_start", None, "debug")
    /\ \E g \in DOMAIN guests : guests[g].task_id \in DOMAIN tasks

\* C23: set_status stamps started_on exactly when the status asked is
\* running, and completed_on exactly when it is completed or the distributed
\* alias; the alias leaves the stored status as it was, and the stored status
\* is always one of the eight persisted states.  (SpecStatus)
C23_StampsByStatus ==
    /\ [](\A t \in DOMAIN tasks : tasks[t].status \in status_type)
    /\ [][\A t \in 1..MaxStatusTasks, st \in StatusArgs :
             (SetStatus(t, st) /\ t \in DOMAIN tasks)
             => /\ tasks'[t].status \in status_type
                /\ st = TASK_DISTRIBUTED_COMPLETED
                      => tasks'[t].status = tasks[t].status
                /\ tasks'[t].started_on =
                      IF st = TASK_RUNNING THEN now ELSE tasks[t].started_on
                /\ tasks'[t].completed_on =
                      IF st \in {TASK_COMPLETED, TASK_DISTRIBUTED_COMPLETED}
                      THEN now ELSE tasks[t].completed_on]_vars

\* C23 witness: the alias was applied to a running task: completed_on is
\* stamped after started_on and the task is still stored running.
C23_Witness ==
    \E t \in DOMAIN tasks :
        /\ tasks[t].status = TASK_RUNNING
        /\ tasks[t].started_on # NoTime
        /\ tasks[t].completed_on > tasks[t].started_on

\* C25: after a reschedule call the task is stored recovered if and only if a
\* new pending task was created and its id returned.  (Spec)
C25_RecoveredIffCloned ==
    [][\A t \in 1..MaxTasks :
          (Reschedule(t) /\ t \in DOMAIN tasks)
          => (tasks'[t].status = TASK_RECOVERED
              <=> /\ ret'.val \in DOMAIN tasks' \ DOMAIN tasks
                  /\ tasks'[ret'.val].status = TASK_PENDING)]_vars

\* C26: no set_status call moves a task to recovered, and reschedule sets the
\* status of the row it is given to nothing but recovered.  (Spec)
C26_RecoveredOnlyByReschedule ==
    [][\A t \in 1..MaxTasks :
          /\ \A st \in StatusArgs :
                (SetStatus(t, st) /\ t \in DOMAIN tasks
                 /\ tasks[t].status # TASK_RECOVERED)
                => tasks'[t].status # TASK_RECOVERED
          /\ (Reschedule(t) /\ t \in DOMAIN tasks)
                => tasks'[t].status \in {tasks[t].status, TASK_RECOVERED}]_vars

\* C27: when the demultiplexer hands back files other than the path
\* submitted, the path is registered as a Sample and the Sample of every task
\* the call adds has that Sample as its parent, whether the task was added
\* through static extraction or its content was a Sample already.
\* (SpecDemux)
C27_ChildrenCarryParent ==
    [][\A path \in Archives, a \in DemuxArgs, static \in BOOLEAN :
          Demux(path, a, static)
          => /\ \E s \in DOMAIN samples' :
                   samples'[s].sha256 = get_sha256(FileContent(path))
             /\ \A t \in DOMAIN tasks' \ DOMAIN tasks :
                   LET parent == samples'[tasks'[t].sample_id].parent
                   IN /\ parent \in DOMAIN samples'
                      /\ samples'[parent].sha256 =
                             get_sha256(FileContent(path))]_vars

\* The names a tags string asks for: split on commas, white space trimmed,
\* each name once.
AskedNames(s) == IF s = "X" THEN {"X"} ELSE {"x"}

\* C28: a submission whose tags string names the same tag more than once, or
\* with white space around it, succeeds and gives a task associated with the
\* one Tag of each name asked.  (SpecTagNames)
C28_TagsSplitTrimmedOnce ==
    [][\A s \in RawTags :
          Submit(TagNameRequest(s))
          => /\ ret'.val \in DOMAIN tasks' \ DOMAIN tasks
             /\ tasks'[ret'.val].tags = AskedNames(s)
             /\ AskedNames(s) \subseteq tags']_vars

\* A tag name without its white space and in lower case.
Normalized(n) == IF n \in {"x", "X", "x\t"} THEN "x" ELSE n

\* C29: no two Tag rows have names that differ only in case or white space.
\* (SpecTagNames)
C29_OneTagPerNormalizedName ==
    \A n, m \in tags : Normalized(n) = Normalized(m) => n = m

\* C30: recording an error for a task appends one Error row and nothing
\* else: the tasks are as they were (status and timestamps), every earlier
\* Error row is as it was, and the errors listed for the task afterwards are
\* the earlier ones and the new one.  (SpecErrors)
C30_AddErrorOnlyAppends ==
    [][\A t \in 1..MaxStatusTasks, message \in Messages :
          (AddError(message, t) /\ t \in DOMAIN tasks)
          => /\ tasks' = tasks
             /\ \A e \in DOMAIN errors :
                   e \in DOMAIN errors' /\ errors'[e] = errors[e]
             /\ \E new \in DOMAIN errors' \ DOMAIN errors :
                   /\ DOMAIN errors' = DOMAIN errors \cup {new}
                   /\ errors'[new] = Error(message, t)
                   /\ view_errors(errors', t) = view_errors(errors, t) \cup {new}]_vars

\* C30 witness: a second error was recorded for a running task that had one.
C30_Witness ==
    /\ ret.op = "add_error"
    /\ \E t \in DOMAIN tasks :
          /\ tasks[t].status = TASK_RUNNING
          /\ Cardinality(view_errors(errors, t)) = 2

\* The candidate set of a selection a = <<label, platform, tags>>: the
\* machines of the label; or those of the platform that carry every tag
\* asked; or those that carry every tag asked; or all of them.
InCandidateSet(row, a) ==
    IF a[1] # "" THEN row.label = a[1]
    ELSE IF a[2] # "" THEN row.platform = a[2] /\ Range(a[3]) \subseteq row.tags
    ELSE Range(a[3]) \subseteq row.tags

\* C31: the machine lock_machine returns is in the candidate set of the
\* selection, and a machine is returned whenever an unlocked machine of the
\* candidate set exists; a machine that carries only some of the tags asked
\* is never returned.  (SpecLease)
C31_CandidateSet ==
    [][\A a \in LockArgs :
          (LockMachine("p1", a[1], a[2], a[3]) /\ Selectable(a))
          => /\ ret'.val # None => InCandidateSet(machines[ret'.val], a)
             /\ (\E m \in DOMAIN machines :
                    InCandidateSet(machines[m], a) /\ ~machines[m].locked)
                => ret'.val # None]_vars

\* C31 witness: the tags x and y were asked for, and the machine that carries
\* both was returned while the one registered before it, which carries x
\* only, stays unlocked.
C31_Witness ==
    /\ ret.op = "lock_machine"
    /\ ret.val \in DOMAIN machines
    /\ machines[ret.val].tags = {"x", "y"}
    /\ \E m \in DOMAIN machines :
          m < ret.val /\ machines[m].tags = {"x"} /\ ~machines[m].locked

\* C32: set_machine_status and set_machine_interface leave the locked flag
\* and locked_changed_on of every machine as they were, locked or not; for a
\* label no machine has they change no row and raise nothing.
\* (SpecMachineStatus)
C32_StatusLeavesLock ==
    [][\A label \in Labels :
          (\/ \E status \in MachineStatuses : SetMachineStatus(label, status)
           \/ \E interface \in Interfaces : SetMachineInterface(label, interface))
          => /\ DOMAIN machines' = DOMAIN machines
             /\ \A m \in DOMAIN machines :
                   /\ machines'[m].locked = machines[m].locked
                   /\ machines'[m].locked_changed_on = machines[m].locked_changed_on
             /\ ret'.val = None
             /\ ret'.log \in {"", "debug"}
             /\ (\A m \in DOMAIN machines : machines[m].label # label)
                => <<store, guests, errors>>' = <<store, guests, errors>>]_vars

\* C32 witness: the status of a locked machine was set after the clock moved:
\* the machine is still locked, with the stamp of its lock.
C32_Witness ==
    /\ ret.op = "set_machine_status"
    /\ \E m \in DOMAIN machines :
          /\ machines[m].locked
          /\ machines[m].status = "running"
          /\ machines[m].status_changed_on > machines[m].locked_changed_on
          /\ machines[m].locked_changed_on # NoTime

\* C33: no step changes a field of a Sample row that exists, its parent
\* included, and no step deletes a Sample row.  (SpecSamples)
C33_SamplesImmutable ==
    [][\A s \in DOMAIN samples :
          s \in DOMAIN samples' /\ samples'[s] = samples[s]]_vars

\* C33 witness: an archive was submitted after one of its files: the task of
\* that file points at the Sample the file had, which has no parent, and the
\* archive is a Sample too.
C33_Witness ==
    /\ ret.op = "demux_sample_and_add_to_db"
    /\ \E s \in DOMAIN samples : samples[s].sha256 = "sha256:Z"
    /\ \E i \in DOMAIN ret.val :
          /\ ret.val[i] \in DOMAIN tasks
          /\ tasks[ret.val[i]].sample_id \in DOMAIN samples
          /\ samples[tasks[ret.val[i]].sample_id].parent = None

\* C34: a submission of a file whose type is PE32+ that names no machine
\* gets the tag 64_bit besides the tags it asked for; one that names a
\* machine, one of a file of another type and one of a URL get the tags they
\* asked for and nothing else.  (SpecSubmit)
C34_Implicit64BitTag ==
    [][\A req \in Requests :
          Submit(req)
          => /\ ret'.val \in DOMAIN tasks' \ DOMAIN tasks
             /\ tasks'[ret'.val].tags =
                   Range(req[3].tags)
                   \cup (IF /\ req[1] # "url"
                            /\ req[2] = "/tmp/b"
                            /\ req[3].machine = ""
                         THEN {"64_bit"} ELSE {})]_vars

\* C34 witness: the PE32+ file was submitted with the tag x and no machine,
\* and again for the machine vm1: the first task has x and 64_bit, the second
\* no tag.
C34_Witness ==
    /\ \E t \in DOMAIN tasks :
          /\ tasks[t].target = "/tmp/b"
          /\ tasks[t].tags = {"x", "64_bit"}
    /\ \E t \in DOMAIN tasks :
          /\ tasks[t].target = "/tmp/b"
          /\ tasks[t].machine = "vm1"
          /\ tasks[t].tags = {}

\* C35: a task of the category pcap or static has started_on stamped when
\* it is submitted, and no later call, fetch and set_status included, writes
\* its started_on again.  (SpecQueue)
C35_StartedAtSubmission ==
    [][/\ \A t \in DOMAIN tasks' \ DOMAIN tasks :
             tasks'[t].category \in {"pcap", "static"}
             => tasks'[t].started_on = now
       /\ \A t \in DOMAIN tasks \cap DOMAIN tasks' :
             tasks[t].category \in {"pcap", "static"}
             => tasks'[t].started_on = tasks[t].started_on]_vars

\* C36: while fetch(lock=True) keeps being called, every pending task is
\* eventually stored running, and a fetch that finds no pending task returns
\* None: no pending task is passed over for ever.  (SpecDispatch)
C36_EveryPendingTaskDispatched ==
    /\ \A t \in 1..MaxTasks :
          (t \in DOMAIN tasks /\ tasks[t].status = TASK_PENDING)
          ~> (t \in DOMAIN tasks /\ tasks[t].status = TASK_RUNNING)
    /\ [][Fetch(TRUE, "")
          => IF \E t \in DOMAIN tasks : tasks[t].status = TASK_PENDING
             THEN /\ ret'.val \in DOMAIN tasks
                  /\ tasks[ret'.val].status = TASK_PENDING
                  /\ tasks'[ret'.val].status = TASK_RUNNING
             ELSE ret'.val = None]_vars

\* C36 witness: fetch returned None after every one of several tasks, of
\* different priorities, was moved to running.
C36_Witness ==
    /\ ret = Return("fetch", None, "")
    /\ \E t, u \in DOMAIN tasks : tasks[t].priority > tasks[u].priority
    /\ \A t \in DOMAIN tasks : tasks[t].status = TASK_RUNNING

\* C37: with set_status never asked for pending, a task is returned by a
\* locking fetch at most once: the task a locking fetch returns is pending
\* before the call and not after it, and no call makes a task that is not
\* pending pending again.  (SpecOnce)
C37_ClaimedAtMostOnce ==
    /\ [][\A machine \in {"", "vm1"} :
             (Fetch(TRUE, machine) /\ ret'.val # None)
             => /\ tasks[ret'.val].status = TASK_PENDING
                /\ tasks'[ret'.val].status # TASK_PENDING]_vars
    /\ [][\A t \in DOMAIN tasks \cap DOMAIN tasks' :
             tasks[t].status # TASK_PENDING
             => tasks'[t].status # TASK_PENDING]_vars

\* C37 witness: a locking fetch finds nothing to return while a task it
\* returned before is running and another one was re-scheduled.
C37_Witness ==
    /\ ret = Return("fetch", None, "")
    /\ \E t \in DOMAIN tasks : tasks[t].status = TASK_RUNNING
    /\ \E t \in DOMAIN tasks : tasks[t].status = TASK_RECOVERED

\* C38: after delete_task(t) of a task that exists, no Guest and no Error
\* row refers to t, and every other task, with its Guest and its Errors, is
\* as it was.  (SpecCascade)
C38_DeleteCascades ==
    [][\A t \in 1..MaxTasks :
          (DeleteTask(t) /\ t \in DOMAIN tasks)
          => /\ t \notin DOMAIN tasks'
             /\ \A g \in DOMAIN guests' : guests'[g].task_id # t
             /\ \A e \in DOMAIN errors' : errors'[e].task_id # t
             /\ \A u \in DOMAIN tasks \ {t} :
                   /\ u \in DOMAIN tasks' /\ tasks'[u] = tasks[u]
                   /\ \A g \in DOMAIN guests :
                         guests[g].task_id = u
                         => g \in DOMAIN guests' /\ guests'[g] = guests[g]
                   /\ \A e \in DOMAIN errors :
                         errors[e].task_id = u
                         => e \in DOMAIN errors' /\ errors'[e] = errors[e]]_vars

\* C38 witness: a task was deleted and the first Guest and the first Error
\* went with it; the task that stays keeps its Guest and its Error.
C38_Witness ==
    /\ ret.op = "delete_task"
    /\ ret.val # None
    /\ ret.val \notin DOMAIN tasks
    /\ DOMAIN guests = {2}
    /\ DOMAIN errors = {2}
    /\ \E u \in DOMAIN tasks :
          /\ guests[2].task_id = u
          /\ errors[2].task_id = u

\* C39: a lock_machine or unlock_machine call changes at most one machine
\* row, and of that row only locked and locked_changed_on; the tasks, the
\* guests, the samples, the tags and the errors are as they were; a call
\* that returns no machine changes nothing.  (SpecFrame)
C39_LeaseFrame ==
    [][(\/ \E a \in FrameLockArgs : LockMachine("p1", a[1], a[2], a[3])
        \/ \E label \in Labels : UnlockMachine("p1", label))
       => /\ <<tasks, samples, tags, guests, errors>>'
                = <<tasks, samples, tags, guests, errors>>
          /\ DOMAIN machines' = DOMAIN machines
          /\ Cardinality({m \in DOMAIN machines : machines'[m] # machines[m]}) <= 1
          /\ \A m \in DOMAIN machines :
                machines'[m] =
                    [machines[m] EXCEPT
                        !.locked = machines'[m].locked,
                        !.locked_changed_on = machines'[m].locked_changed_on]
          /\ ret'.val = None => machines' = machines]_vars

\* C39 witness: one of two registered machines was locked after the clock
\* moved, while a tagged task is in the queue; the other machine was not
\* stamped.
C39_Witness ==
    /\ ret.op = "lock_machine"
    /\ ret.val \in DOMAIN machines
    /\ machines[ret.val].locked_changed_on = 2
    /\ \E m \in DOMAIN machines : machines[m].locked_changed_on = NoTime
    /\ \E t \in DOMAIN tasks : tasks[t].tags = {"x"}

====
